---- MODULE Spec2Model ----
(***************************************************************************)
(* Replay / training control logic of the two notebooks:                   *)
(*   pendulum/ddpg_pendulum.ipynb  (DDPG, "ddpg")                          *)
(*   Breakout/Untitled.ipynb       (DQN,  "dqn")                           *)
(* Real numbers are fixed point, Unit units per 1.0, rounded to nearest.   *)
(* Networks, optimizers and the environment are opaque: their results are  *)
(* drawn from small sets.                                                  *)
(***************************************************************************)
EXTENDS Integers, Sequences, FiniteSets, TLC

VARIABLES
    variant,            \* which notebook runs: "ddpg" or "dqn"
    outcome,            \* result of the last learn/train call: "none", "ok", "ValueError"
    \* ---- Buffer (ddpg) ----
    buffer_capacity, batch_size, buffer_counter,
    state_buffer, action_buffer, reward_buffer, next_state_buffer,
    batch_indices,      \* indices drawn by the last learn()
    batch,              \* the four batch arrays handed to update()
    y,                  \* the critic targets computed by the last update()
    \* ---- DQN store ----
    replay_buffer,      \* deque(maxlen)
    minibatch,          \* result of the last random.sample in train()
    minibatch_pos,      \* history: deque positions the minibatch was taken from
    fit_log,            \* history: target_Q and Q_values of each fit of the last train()
    \* ---- history: the tuples inserted by the store harness, in order ----
    recorded,
    \* ---- parameters ----
    actor_model, critic_model, target_actor, target_critic,
    main_network, target_network,
    epsilon,            \* self.epsilon of the DQN agent
    select_draw,        \* history of the selection harness: the uniform draw and
                        \* the random index of the last epsilon_greedy call
    \* ---- OUActionNoise ----
    x_prev, x_initial,
    other_noise,        \* a second OUActionNoise object with the same parameters
    drawn,              \* history of the noise harness, per object: the draws
                        \* and samples since its last reset()
    \* ---- training loops ----
    pc, ep, prev_state, state, action, reward, done, truncated,
    episodic_reward, ep_reward_list, time_step, t, Return, episode_rewards,
    \* ---- history of the loops ----
    events,             \* events of the current loop iteration, in order
    ep_steps,           \* env.step calls since the last env.reset
    ep_rewards,         \* rewards env.step returned since the last env.reset
    env_last,           \* the environment's last exchange: (observation before,
                        \* action received, reward, observation returned)
    env_done,           \* the environment reported completion since the last reset
    env_steps,          \* env.step calls of the run
    learn_calls, actor_syncs, critic_syncs,
    hard_syncs,         \* update_target_network calls of the run
    synced_from         \* the main network's weights at the last target copy

buffer_vars == <<buffer_capacity, batch_size, buffer_counter, state_buffer,
                 action_buffer, reward_buffer, next_state_buffer>>
sample_vars == <<batch_indices, batch, y>>
dqn_store_vars == <<replay_buffer>>
dqn_sample_vars == <<minibatch, minibatch_pos, fit_log>>
ddpg_live_vars == <<actor_model, critic_model>>
ddpg_target_vars == <<target_actor, target_critic>>
dqn_param_vars == <<main_network, target_network>>
noise_vars == <<x_prev, x_initial, other_noise, drawn>>
loop_vars == <<pc, ep, prev_state, state, action, reward, done, truncated,
               episodic_reward, ep_reward_list, time_step, t, Return,
               episode_rewards>>
hist_vars == <<events, ep_steps, ep_rewards, env_last, env_done, env_steps, learn_calls, actor_syncs,
               critic_syncs, hard_syncs, synced_from>>

vars == <<variant, epsilon, select_draw, outcome, buffer_vars, sample_vars, dqn_store_vars,
          dqn_sample_vars, recorded, ddpg_live_vars, ddpg_target_vars,
          dqn_param_vars, noise_vars, loop_vars, hist_vars>>

(***************************************************************************)
(* Bounds of the model                                                     *)
(***************************************************************************)
MaxCapacity == 4        \* Buffer capacities 1..MaxCapacity in the store harness
MaxBatch == 2           \* batch sizes 1..MaxBatch in the store harness
MaxRecords == 6         \* insertions per run of the store harness

Min(a, b) == IF a < b THEN a ELSE b

\* fixed-point resolution: units per 1.0
Unit == 10 ^ 3

\* (n / d) rounded to the nearest integer, d > 0
RoundDiv(n, d) == (2 * n + d) \div (2 * d)

\* Weight lists a network can hold (get_weights()): initial values and the
\* results of optimizer steps are drawn from this set.
ParamValues == { <<0, 0>>, <<Unit, -Unit>>, <<-Unit, Unit>> }

\* One gradient step of an optimizer (apply_gradients, fit): the optimizer is
\* opaque; a step moves the weights to another weight list, and it takes
\* three steps to come back to the same weights.
optimizer_step(w) ==
    CASE w = <<0, 0>> -> <<Unit, -Unit>>
      [] w = <<Unit, -Unit>> -> <<-Unit, Unit>>
      [] OTHER -> <<0, 0>>

\* the (s, a, r, s') tuple of insertion index k that the store harness hands
\* to Buffer.record: t0, t1, ... differ from each other in every field
Transition(k) == <<10 + k, 20 + k, 30 + k, 40 + k>>

\* the (state, action, reward, next_state, done) tuple of insertion index k
\* that the store harness hands to DQN.store_transistion; the action is an
\* index of the network's output
DQNTransition(k) == <<10 + k, k % 2, 30 + k, 40 + k, k % 2 = 1>>

(***************************************************************************)
(* Buffer (ddpg)                                                           *)
(***************************************************************************)
\* np.zeros((buffer_capacity, ...))
zeros(capacity) == [i \in 0 .. capacity - 1 |-> 0]

RingIndexNoWrap(counter, capacity) == Min(counter, capacity - 1)

\* index = self.buffer_counter % self.buffer_capacity
RingIndex(counter, capacity) == counter % capacity

record_two_slots(obs_tuple) ==
    LET index == RingIndex(buffer_counter, buffer_capacity)
        other == RingIndex(buffer_counter + 1, buffer_capacity)
    IN
    /\ state_buffer' = [state_buffer EXCEPT ![index] = obs_tuple[1],
                                             ![other] = obs_tuple[1]]
    /\ action_buffer' = [action_buffer EXCEPT ![index] = obs_tuple[2]]
    /\ reward_buffer' = [reward_buffer EXCEPT ![index] = obs_tuple[3]]
    /\ next_state_buffer' = [next_state_buffer EXCEPT ![index] = obs_tuple[4]]
    /\ buffer_counter' = buffer_counter + 1
    /\ UNCHANGED <<buffer_capacity, batch_size>>

\* Buffer.record
record(obs_tuple) ==
    LET index == RingIndex(buffer_counter, buffer_capacity) IN
    /\ state_buffer' = [state_buffer EXCEPT ![index] = obs_tuple[1]]
    /\ action_buffer' = [action_buffer EXCEPT ![index] = obs_tuple[2]]
    /\ reward_buffer' = [reward_buffer EXCEPT ![index] = obs_tuple[3]]
    /\ next_state_buffer' = [next_state_buffer EXCEPT ![index] = obs_tuple[4]]
    /\ buffer_counter' = buffer_counter + 1
    /\ UNCHANGED <<buffer_capacity, batch_size>>

record_range_whole(counter, capacity) == capacity

\* record_range = min(self.buffer_counter, self.buffer_capacity)
record_range(counter, capacity) == Min(counter, capacity)

\* np.random.choice(a, size): size draws from range(a), with replacement
random_choice(a, size) == [1 .. size -> 0 .. a - 1]

upper_bound == 2 * Unit         \* env.action_space.high[0] = 2.0
lower_bound == -(2 * Unit)      \* env.action_space.low[0] = -2.0
ddpg_gamma == 990               \* gamma = 0.99

\* actor_model(state): tanh(...) * upper_bound, a function of the weights and
\* of the observation alone (the network is opaque; its output is saturated)
actor_output(w, s) == IF (s + w[1] \div Unit) % 2 = 0 THEN upper_bound ELSE lower_bound

\* critic([state, action]) for a critic with weights w (opaque as well)
critic_output(w, s, a) == Unit + w[1] * s + w[2] * (a \div Unit)

critic_target_masked(r, ns) ==
    IF done \/ truncated
    THEN r * Unit
    ELSE r * Unit + RoundDiv(ddpg_gamma * critic_output(target_critic, ns,
                                                       actor_output(target_actor, ns)), Unit)

\* target_actions = target_actor(next_state_batch)
\* y = reward_batch + gamma * target_critic([next_state_batch, target_actions])
critic_target(r, ns) ==
    r * Unit + RoundDiv(ddpg_gamma * critic_output(target_critic, ns,
                                                  actor_output(target_actor, ns)), Unit)

update_writes_target ==
    /\ y' = [k \in 1 .. batch_size |->
                critic_target(batch'.reward_batch[k], batch'.next_state_batch[k])]
    /\ critic_model' = optimizer_step(critic_model)
    /\ actor_model' = optimizer_step(actor_model)
    /\ target_actor' = actor_model'
    /\ UNCHANGED target_critic

\* Buffer.update on the batch drawn by learn: the critic target y, then two
\* optimizer steps on the live networks; the targets are only read.
update ==
    /\ y' = [k \in 1 .. batch_size |->
                critic_target(batch'.reward_batch[k], batch'.next_state_batch[k])]
    /\ critic_model' = optimizer_step(critic_model)
    /\ actor_model' = optimizer_step(actor_model)
    /\ UNCHANGED ddpg_target_vars

learn_misaligned ==
    LET range == record_range(buffer_counter, buffer_capacity) IN
    IF range = 0
    THEN /\ outcome' = "ValueError"
         /\ UNCHANGED <<sample_vars, ddpg_live_vars, ddpg_target_vars>>
    ELSE /\ \E idx \in random_choice(range, batch_size) :
              /\ batch_indices' = idx
              /\ batch' = [state_batch |-> [k \in 1 .. batch_size |-> state_buffer[idx[k]]],
                           action_batch |-> [k \in 1 .. batch_size |-> action_buffer[idx[k]]],
                           reward_batch |-> [k \in 1 .. batch_size |-> reward_buffer[idx[1]]],
                           next_state_batch |-> [k \in 1 .. batch_size |-> next_state_buffer[idx[k]]]]
         /\ update
         /\ outcome' = "ok"

\* Buffer.learn: np.random.choice(0, batch_size) raises ValueError before
\* anything is changed.
learn ==
    LET range == record_range(buffer_counter, buffer_capacity) IN
    IF range = 0
    THEN /\ outcome' = "ValueError"
         /\ UNCHANGED <<sample_vars, ddpg_live_vars, ddpg_target_vars>>
    ELSE /\ \E idx \in random_choice(range, batch_size) :
              /\ batch_indices' = idx
              /\ batch' = [state_batch |-> [k \in 1 .. batch_size |-> state_buffer[idx[k]]],
                           action_batch |-> [k \in 1 .. batch_size |-> action_buffer[idx[k]]],
                           reward_batch |-> [k \in 1 .. batch_size |-> reward_buffer[idx[k]]],
                           next_state_batch |-> [k \in 1 .. batch_size |-> next_state_buffer[idx[k]]]]
         /\ update
         /\ outcome' = "ok"

(***************************************************************************)
(* DQN store and training step                                             *)
(***************************************************************************)
\* self.replay_buffer = deque(maxlen=5000)
maxlen == 2

deque_append_unbounded(q, x) == Append(q, x)

\* deque.append on a deque with maxlen: a full deque drops its left end
deque_append(q, x) == IF Len(q) = maxlen THEN Append(Tail(q), x) ELSE Append(q, x)

store_transistion(s, a, r, s2, d) ==
    /\ replay_buffer' = deque_append(replay_buffer, <<s, a, r, s2, d>>)

random_sample_replace(n, k) == [1 .. k -> 1 .. n]

\* random.sample(population, k): k distinct positions of the population, in
\* selection order
random_sample(n, k) ==
    { p \in [1 .. k -> 1 .. n] : \A i, j \in 1 .. k : i # j => p[i] # p[j] }

\* self.main_network.fit(...), once per sampled transition
RECURSIVE fit_each(_, _)
fit_each(w, n) == IF n = 0 THEN w ELSE fit_each(optimizer_step(w), n - 1)

action_size == 2                \* env.action_space.n
gamma == 900                    \* self.gamma = 0.9

\* network.predict(s) for a network with weights w: one Q value per action
\* (the network is opaque; its output is a function of weights and input)
predict(w, s) == [a \in 0 .. action_size - 1 |-> w[1] * s + w[2] * a]

\* np.amax
amax(q) == CHOOSE m \in { q[a] : a \in DOMAIN q } : \A a \in DOMAIN q : q[a] <= m

target_Q_bootstrap_always(r, d, next_q) == r * Unit + RoundDiv(gamma * amax(next_q), Unit)

\* if not done: target_Q = reward + self.gamma * np.amax(...)
\* else: target_Q = reward
target_Q(r, d, next_q) ==
    IF ~d THEN r * Unit + RoundDiv(gamma * amax(next_q), Unit) ELSE r * Unit

Q_values_target_only(q, a, tq) == [i \in DOMAIN q |-> IF i = a THEN tq ELSE 0]

\* Q_values[0][action] = target_Q
Q_values(q, a, tq) == [q EXCEPT ![a] = tq]

\* DQN.train: random.sample raises ValueError when batch_size exceeds the
\* population, before anything is changed; otherwise the main network is fit
\* once per sampled transition and the target network is only read.
train(bs) ==
    IF bs > Len(replay_buffer)
    THEN /\ outcome' = "ValueError"
         /\ UNCHANGED <<dqn_sample_vars, dqn_param_vars>>
    ELSE /\ \E pos \in random_sample(Len(replay_buffer), bs) :
              /\ minibatch_pos' = pos
              /\ minibatch' = [k \in 1 .. bs |-> replay_buffer[pos[k]]]
              /\ fit_log' =
                    [k \in 1 .. bs |->
                        LET tr == replay_buffer[pos[k]]
                            tq == target_Q(tr[3], tr[5], predict(target_network, tr[4]))
                        IN  [target_Q |-> tq,
                             Q_values |-> Q_values(predict(fit_each(main_network, k - 1), tr[1]),
                                                   tr[2], tq)]]
         /\ main_network' = fit_each(main_network, bs)
         /\ UNCHANGED target_network
         /\ outcome' = "ok"

(***************************************************************************)
(* Initial values shared by the specifications                             *)
(***************************************************************************)
\* Buffer.__init__(buffer_capacity, batch_size)
BufferInit(capacity, bsize) ==
    /\ buffer_capacity = capacity
    /\ batch_size = bsize
    /\ buffer_counter = 0
    /\ state_buffer = zeros(capacity)
    /\ action_buffer = zeros(capacity)
    /\ reward_buffer = zeros(capacity)
    /\ next_state_buffer = zeros(capacity)

\* the networks are built with initial weights and each target is seeded
\* with its live network's weights
NetworksInit ==
    /\ actor_model = <<0, 0>>
    /\ critic_model = <<Unit, -Unit>>
    /\ target_actor = actor_model
    /\ target_critic = critic_model
    /\ main_network = <<Unit, -Unit>>
    /\ target_network = main_network

\* an optional value is None or <<v>>
None == << >>

initial_epsilon == 800          \* self.epsilon = 0.8

\* DQN.__init__: self.epsilon = 0.8
SelectorInit ==
    /\ epsilon = initial_epsilon
    /\ select_draw = None

\* OUActionNoise.__init__ with x_initial=None: reset() zeroes x_prev
NoiseInit ==
    /\ x_initial = None
    /\ x_prev = 0
    /\ other_noise = [x_prev |-> 0, x_initial |-> None]
    /\ drawn = [a |-> [log |-> << >>, discarded |-> FALSE],
                b |-> [log |-> << >>, discarded |-> FALSE]]

SampleInit ==
    /\ outcome = "none"
    /\ batch_indices = << >>
    /\ batch = [state_batch |-> << >>, action_batch |-> << >>,
                reward_batch |-> << >>, next_state_batch |-> << >>]
    /\ y = << >>
    /\ replay_buffer = << >>
    /\ minibatch = << >>
    /\ minibatch_pos = << >>
    /\ fit_log = << >>
    /\ recorded = << >>

LoopIdle ==
    /\ pc = "idle"
    /\ ep = 0
    /\ prev_state = 0
    /\ state = 0
    /\ action = 0
    /\ reward = 0
    /\ done = FALSE
    /\ truncated = FALSE
    /\ episodic_reward = 0
    /\ ep_reward_list = << >>
    /\ time_step = 0
    /\ t = 0
    /\ Return = 0
    /\ episode_rewards = << >>

HistInit ==
    /\ events = << >>
    /\ ep_steps = 0
    /\ ep_rewards = << >>
    /\ env_last = <<None, None, None, None>>
    /\ env_done = FALSE
    /\ learn_calls = 0
    /\ actor_syncs = 0
    /\ critic_syncs = 0
    /\ env_steps = 0
    /\ hard_syncs = 0
    /\ synced_from = main_network

(***************************************************************************)
(* SpecStore: the two transition stores called in any order                *)
(***************************************************************************)
InitStore ==
    /\ variant \in {"ddpg", "dqn"}
    /\ \E c \in 1 .. MaxCapacity, b \in 1 .. MaxBatch :
          IF variant = "ddpg" THEN BufferInit(c, b) ELSE BufferInit(1, 1)
    /\ NetworksInit
    /\ NoiseInit
    /\ SampleInit
    /\ SelectorInit
    /\ LoopIdle
    /\ HistInit

CallRecord ==
    /\ variant = "ddpg"
    /\ Len(recorded) < MaxRecords
    /\ LET obs_tuple == Transition(Len(recorded)) IN
          /\ record(obs_tuple)
          /\ recorded' = Append(recorded, obs_tuple)
    /\ UNCHANGED <<variant, epsilon, select_draw, outcome, sample_vars, dqn_store_vars, dqn_sample_vars,
                   ddpg_live_vars, ddpg_target_vars, dqn_param_vars, noise_vars,
                   loop_vars, hist_vars>>

CallLearn ==
    /\ variant = "ddpg"
    /\ learn
    /\ UNCHANGED <<variant, epsilon, select_draw, buffer_vars, dqn_store_vars, dqn_sample_vars, recorded,
                   dqn_param_vars, noise_vars, loop_vars, hist_vars>>

CallStoreTransistion ==
    /\ variant = "dqn"
    /\ Len(recorded) < MaxRecords
    /\ LET tr == DQNTransition(Len(recorded)) IN
          /\ store_transistion(tr[1], tr[2], tr[3], tr[4], tr[5])
          /\ recorded' = Append(recorded, tr)
    /\ UNCHANGED <<variant, epsilon, select_draw, outcome, buffer_vars, sample_vars, dqn_sample_vars,
                   ddpg_live_vars, ddpg_target_vars, dqn_param_vars, noise_vars,
                   loop_vars, hist_vars>>

CallTrainWith(bs) ==
    /\ variant = "dqn"
    /\ train(bs)
    /\ UNCHANGED <<variant, epsilon, select_draw, buffer_vars, sample_vars, dqn_store_vars, recorded,
                   ddpg_live_vars, ddpg_target_vars, noise_vars, loop_vars,
                   hist_vars>>

CallTrain == \E bs \in 1 .. MaxBatch : CallTrainWith(bs)

NextStore == CallRecord \/ CallLearn \/ CallStoreTransistion \/ CallTrain

SpecStore == InitStore /\ [][NextStore]_vars

(***************************************************************************)
(* SpecPair: a Buffer of capacity maxlen and the deque(maxlen) of the DQN  *)
(* agent are handed the same transitions, one after the other              *)
(***************************************************************************)
\* rewards the inserted transitions carry
PairRewards == { 1, 2 }

InitPair ==
    /\ variant = "ddpg"
    /\ BufferInit(maxlen, 1)
    /\ NetworksInit
    /\ NoiseInit
    /\ SampleInit
    /\ SelectorInit
    /\ LoopIdle
    /\ HistInit

\* buffer.record((s, a, r, s2)) and dqn.store_transistion(s, a, r, s2, done)
\* for the same s, a, r, s2
InsertBoth ==
    /\ Len(recorded) < MaxRecords
    /\ \E r \in PairRewards :
          LET k == Len(recorded)
              tr == <<10 + k, 20 + k, r, 40 + k>>
          IN  /\ record(tr)
              /\ store_transistion(tr[1], tr[2], tr[3], tr[4], FALSE)
              /\ recorded' = Append(recorded, tr)
    /\ UNCHANGED <<variant, epsilon, select_draw, outcome, sample_vars, dqn_sample_vars, ddpg_live_vars,
                   ddpg_target_vars, dqn_param_vars, noise_vars, loop_vars,
                   hist_vars>>

NextPair == InsertBoth

SpecPair == InitPair /\ [][NextPair]_vars

(***************************************************************************)
(* OUActionNoise, policy, update_target  (ddpg)                            *)
(***************************************************************************)
theta == 150                    \* theta=0.15
dt == 10                        \* dt=1e-2
std_dev == 200                  \* std_dev = 0.2
mean == 0                       \* mean=np.zeros(1)
tau == 5                        \* tau = 0.005

\* np.sqrt in fixed point
sqrt(v) == CHOOSE r \in 0 .. Unit : r * r <= v * Unit /\ (r + 1) * (r + 1) > v * Unit

\* standard normal draws, np.random.normal(size=self.mean.shape)
Normals == { -Unit, Unit }

ou_next_shared(x, z) ==
    x_prev + RoundDiv(theta * (mean - x_prev) * dt, Unit * Unit)
           + RoundDiv(std_dev * sqrt(dt) * z, Unit * Unit)

\* OUActionNoise.__call__ for the draw z: the new x, stored and returned
ou_next(x, z) ==
    x + RoundDiv(theta * (mean - x) * dt, Unit * Unit)
      + RoundDiv(std_dev * sqrt(dt) * z, Unit * Unit)

reset_value_zero(x_init) == 0

\* the value reset() gives x_prev: self.x_initial if it is not None, else
\* np.zeros_like(self.mean)
reset_value(x_init) == IF x_init # None THEN x_init[1] ELSE 0

\* OUActionNoise.reset
reset ==
    /\ x_prev' = reset_value(x_initial)
    /\ UNCHANGED x_initial

clip_off(a, a_min, a_max) == a

\* np.clip
clip(a, a_min, a_max) == IF a < a_min THEN a_min ELSE IF a > a_max THEN a_max ELSE a

\* policy(state, noise_object) for the actor output sampled_actions and the
\* draw z: the noise process advances and the clipped sum is returned
policy(sampled_actions, z) ==
    LET noise == ou_next(x_prev, z) IN
    /\ x_prev' = noise
    /\ action' = clip(sampled_actions + noise, lower_bound, upper_bound)
    /\ UNCHANGED <<x_initial, other_noise, drawn>>

polyak_swapped(original_w, target_w) ==
    RoundDiv(original_w * (Unit - tau), Unit) + RoundDiv(target_w * tau, Unit)

\* one weight of update_target:
\* original_weights[i] * tau + target_weights[i] * (1 - tau), each product
\* rounded to the precision of the weights
polyak(original_w, target_w) ==
    RoundDiv(original_w * tau, Unit) + RoundDiv(target_w * (Unit - tau), Unit)

\* update_target(target, original, tau): the new weights of target
update_target(target, original) ==
    [i \in 1 .. Len(target) |-> polyak(original[i], target[i])]

(***************************************************************************)
(* SpecNoise: two OUActionNoise objects with equal parameters, sampled and *)
(* reset in any order                                                      *)
(***************************************************************************)
MaxSamples == 3         \* samples drawn from one object between two resets
MaxInitial == 1         \* configured x_initial: -MaxInitial .. MaxInitial tenths

\* x_initial=None or a configured value
NoiseInitials == {None} \cup { <<k * (Unit \div 10)>> : k \in -MaxInitial .. MaxInitial }

\* OUActionNoise(mean, std_deviation, x_initial=x0), twice: __init__ stores
\* the parameters and calls reset()
InitNoise ==
    /\ variant = "ddpg"
    /\ BufferInit(1, 1)
    /\ NetworksInit
    /\ x_initial \in NoiseInitials
    /\ x_prev = reset_value(x_initial)
    /\ other_noise = [x_prev |-> reset_value(x_initial), x_initial |-> x_initial]
    /\ drawn = [a |-> [log |-> << >>, discarded |-> FALSE],
                b |-> [log |-> << >>, discarded |-> FALSE]]
    /\ SampleInit
    /\ SelectorInit
    /\ LoopIdle
    /\ HistInit

noise_frame == <<variant, epsilon, select_draw, outcome, buffer_vars, sample_vars, dqn_store_vars,
                 dqn_sample_vars, recorded, ddpg_live_vars, ddpg_target_vars,
                 dqn_param_vars, loop_vars, hist_vars>>

\* ou_noise(): __call__ on the first object
CallNoise ==
    /\ Len(drawn.a.log) < MaxSamples
    /\ \E z \in Normals :
          /\ x_prev' = ou_next(x_prev, z)
          /\ drawn' = [drawn EXCEPT !.a.log = Append(@, <<z, x_prev'>>)]
    /\ UNCHANGED <<x_initial, other_noise, noise_frame>>

\* ou_noise.reset()
CallReset ==
    /\ reset
    /\ drawn' = [drawn EXCEPT !.a = [log |-> << >>,
                                     discarded |-> x_prev # reset_value(x_initial)]]
    /\ UNCHANGED <<other_noise, noise_frame>>

\* __call__ on the second object
CallOtherNoise ==
    /\ Len(drawn.b.log) < MaxSamples
    /\ \E z \in Normals :
          LET x == ou_next(other_noise.x_prev, z) IN
          /\ other_noise' = [other_noise EXCEPT !.x_prev = x]
          /\ drawn' = [drawn EXCEPT !.b.log = Append(@, <<z, x>>)]
    /\ UNCHANGED <<x_prev, x_initial, noise_frame>>

\* reset() on the second object
CallOtherReset ==
    /\ other_noise' = [other_noise EXCEPT !.x_prev = reset_value(other_noise.x_initial)]
    /\ drawn' = [drawn EXCEPT !.b = [log |-> << >>,
                                     discarded |-> other_noise.x_prev
                                                     # reset_value(other_noise.x_initial)]]
    /\ UNCHANGED <<x_prev, x_initial, noise_frame>>

NextNoise == CallNoise \/ CallReset \/ CallOtherNoise \/ CallOtherReset

SpecNoise == InitNoise /\ [][NextNoise]_vars

(***************************************************************************)
(* SpecSoft: update_target called repeatedly with fixed live weights       *)
(***************************************************************************)
MaxWeight == 2          \* weights -MaxWeight .. MaxWeight quarters of 1.0

\* weights the live and target networks start with
SoftValues == { k * (Unit \div 4) : k \in -MaxWeight .. MaxWeight }

InitSoft ==
    /\ variant = "ddpg"
    /\ BufferInit(1, 1)
    /\ \E a \in SoftValues : actor_model = <<a, -a>>
    /\ \E c \in SoftValues : target_actor = <<c, -c>>
    /\ critic_model = <<Unit, -Unit>>
    /\ target_critic = critic_model
    /\ main_network = <<Unit, -Unit>>
    /\ target_network = main_network
    /\ NoiseInit
    /\ SampleInit
    /\ SelectorInit
    /\ LoopIdle
    /\ HistInit

\* update_target(target_actor, actor_model, tau)
CallUpdateTarget ==
    /\ target_actor' = update_target(target_actor, actor_model)
    /\ UNCHANGED <<variant, epsilon, select_draw, outcome, buffer_vars, sample_vars, dqn_store_vars,
                   dqn_sample_vars, recorded, ddpg_live_vars, target_critic,
                   dqn_param_vars, noise_vars, loop_vars, hist_vars>>

NextSoft == CallUpdateTarget

SpecSoft == InitSoft /\ [][NextSoft]_vars

(***************************************************************************)
(* DQN: action selection and target copy                                   *)
(***************************************************************************)
update_rate == 2                \* self.update_rate = 1000
dqn_batch_size == 1             \* batch_size = 8
num_episodes == 2               \* num_episodes = 500
num_timesteps == 2              \* num_timesteps = 20000
total_episodes == 2             \* total_episodes = 100
MaxSteps == 4                   \* env.step calls explored per run
LoopCapacity == 1               \* buffer = Buffer(50000, 64)
LoopBatch == 1

\* values of random.uniform(0, 1): both ends, and the two sides of epsilon
Uniforms == { 0, initial_epsilon - 1, initial_epsilon, Unit }

\* np.argmax: the first index of the largest value
argmax(q) ==
    CHOOSE a \in DOMAIN q :
        /\ q[a] = amax(q)
        /\ \A b \in DOMAIN q : q[b] = amax(q) => a <= b

epsilon_greedy_inclusive(s, u, rnd) ==
    action' = IF u <= epsilon THEN rnd ELSE argmax(predict(main_network, s))

\* DQN.epsilon_greedy(state) with uniform draw u and random index rnd:
\* if random.uniform(0,1) < self.epsilon: return np.random.randint(self.action_size)
\* return np.argmax(self.main_network.predict(state)[0])
epsilon_greedy(s, u, rnd) ==
    action' = IF u < epsilon THEN rnd ELSE argmax(predict(main_network, s))

update_target_network_skip == UNCHANGED <<target_network, main_network>>

update_target_network_swap ==
    /\ target_network' = main_network
    /\ main_network' = target_network

\* DQN.update_target_network:
\* self.target_network.set_weights(self.main_network.get_weights())
update_target_network ==
    /\ target_network' = main_network
    /\ UNCHANGED main_network

sync_due_always(step) == TRUE

\* if time_step % dqn.update_rate == 0:
sync_due(step) == step % update_rate = 0

(***************************************************************************)
(* The environment (opaque): observations, rewards, completion flags       *)
(***************************************************************************)
Observations == { 1, 2 }

\* results of env.step in the pendulum environment:
\* (observation, reward, terminated, truncated)
StepResults ==
    { <<1, 1, FALSE, FALSE>>, <<2, 2, TRUE, FALSE>>, <<2, 1, FALSE, TRUE>> }

\* results of env.step in the Breakout environment: (observation, reward, done)
DqnStepResults == { <<1, 1, FALSE>>, <<2, 2, TRUE>> }

(***************************************************************************)
(* Training loop of ddpg_pendulum.ipynb                                    *)
(***************************************************************************)
dqn_all_vars == <<dqn_store_vars, dqn_sample_vars, dqn_param_vars, time_step, t,
                  Return, episode_rewards, hard_syncs, synced_from>>
ddpg_all_vars == <<buffer_vars, sample_vars, ddpg_live_vars, ddpg_target_vars,
                   noise_vars, prev_state, truncated, episodic_reward,
                   ep_reward_list, learn_calls, actor_syncs, critic_syncs>>

accumulate_last(total, r) == r

\* episodic_reward += reward  /  Return += reward
accumulate(total, r) == total + r

stored_transition_after(ps, a, r, s) == <<s, a, r, s>>

\* the tuple handed to buffer.record: (prev_state, action, reward, state)
stored_transition(ps, a, r, s) == <<ps, a, r, s>>

in_range_inclusive(i, n) == i <= n

\* for i in range(n): the body runs for i = 0 .. n - 1
in_range(i, n) == i < n

\* for ep in range(total_episodes): prev_state, _ = env.reset(); episodic_reward = 0
DdpgReset ==
    /\ variant = "ddpg" /\ pc = "ep_start"
    /\ IF in_range(ep, total_episodes)
       THEN /\ prev_state' \in Observations
            /\ episodic_reward' = 0
            /\ ep_steps' = 0
            /\ ep_rewards' = << >>
            /\ env_last' = <<None, None, None, <<prev_state'>> >>
            /\ env_done' = FALSE
            /\ events' = << >>
            /\ pc' = "select"
       ELSE /\ pc' = "finished"
            /\ UNCHANGED <<prev_state, episodic_reward, ep_steps, ep_rewards, env_last, env_done, events>>
    /\ UNCHANGED <<variant, epsilon, select_draw, outcome, buffer_vars, sample_vars, recorded,
                   ddpg_live_vars, ddpg_target_vars, noise_vars, ep, state, action,
                   reward, done, truncated, ep_reward_list, env_steps, learn_calls,
                   actor_syncs, critic_syncs, dqn_all_vars>>

\* action = policy(tf_prev_state, ou_noise)
DdpgSelect ==
    /\ variant = "ddpg" /\ pc = "select"
    /\ buffer_counter < MaxSteps
    /\ \E z \in Normals : policy(actor_output(actor_model, prev_state), z)
    /\ events' = <<"SELECT_ACTION">>
    /\ pc' = "step"
    /\ UNCHANGED <<variant, epsilon, select_draw, outcome, buffer_vars, sample_vars, recorded,
                   ddpg_live_vars, ddpg_target_vars, ep, prev_state, state, reward,
                   done, truncated, episodic_reward, ep_reward_list, ep_steps, ep_rewards, env_last,
                   env_steps, env_done, learn_calls, actor_syncs, critic_syncs,
                   dqn_all_vars>>

\* state, reward, done, truncated, _ = env.step(action)
DdpgStep ==
    /\ variant = "ddpg" /\ pc = "step"
    /\ \E res \in StepResults :
          /\ state' = res[1]
          /\ reward' = res[2]
          /\ done' = res[3]
          /\ truncated' = res[4]
    /\ ep_steps' = ep_steps + 1
    /\ ep_rewards' = Append(ep_rewards, reward')
    /\ env_last' = <<env_last[4], <<action>>, <<reward'>>, <<state'>> >>
    /\ env_steps' = env_steps + 1
    /\ env_done' = (done' \/ truncated')
    /\ events' = Append(events, "STEP_ENV")
    /\ pc' = "store"
    /\ UNCHANGED <<variant, epsilon, select_draw, outcome, buffer_vars, sample_vars, recorded,
                   ddpg_live_vars, ddpg_target_vars, noise_vars, ep, prev_state,
                   action, episodic_reward, ep_reward_list, learn_calls,
                   actor_syncs, critic_syncs, dqn_all_vars>>

DdpgStoreSkipLearn ==
    /\ variant = "ddpg" /\ pc = "store"
    /\ record(stored_transition(prev_state, action, reward, state))
    /\ episodic_reward' = accumulate(episodic_reward, reward)
    /\ events' = Append(events, "STORE")
    /\ pc' = "sync"
    /\ UNCHANGED <<variant, epsilon, select_draw, outcome, sample_vars, recorded, ddpg_live_vars,
                   ddpg_target_vars, noise_vars, ep, prev_state, state, action,
                   reward, done, truncated, ep_reward_list, ep_steps, ep_rewards, env_last, env_steps,
                   env_done, learn_calls, actor_syncs, critic_syncs, dqn_all_vars>>

\* buffer.record((prev_state, action, reward, state)); episodic_reward += reward
DdpgStore ==
    /\ variant = "ddpg" /\ pc = "store"
    /\ record(stored_transition(prev_state, action, reward, state))
    /\ episodic_reward' = accumulate(episodic_reward, reward)
    /\ events' = Append(events, "STORE")
    /\ pc' = "learn"
    /\ UNCHANGED <<variant, epsilon, select_draw, outcome, sample_vars, recorded, ddpg_live_vars,
                   ddpg_target_vars, noise_vars, ep, prev_state, state, action,
                   reward, done, truncated, ep_reward_list, ep_steps, ep_rewards, env_last, env_steps,
                   env_done, learn_calls, actor_syncs, critic_syncs, dqn_all_vars>>

DdpgLearnGated ==
    /\ variant = "ddpg" /\ pc = "learn"
    /\ IF buffer_counter > batch_size
       THEN /\ learn
            /\ learn_calls' = learn_calls + 1
            /\ events' = Append(events, "SAMPLE_AND_LEARN")
       ELSE UNCHANGED <<outcome, sample_vars, ddpg_live_vars, ddpg_target_vars,
                        learn_calls, events>>
    /\ pc' = IF outcome' # "ValueError" THEN "sync" ELSE "crashed"
    /\ UNCHANGED <<variant, epsilon, select_draw, buffer_vars, recorded, noise_vars, ep, prev_state,
                   state, action, reward, done, truncated, episodic_reward,
                   ep_reward_list, ep_steps, ep_rewards, env_last, env_steps, env_done, actor_syncs,
                   critic_syncs, dqn_all_vars>>

\* buffer.learn(); an exception ends the run
DdpgLearn ==
    /\ variant = "ddpg" /\ pc = "learn"
    /\ learn
    /\ learn_calls' = learn_calls + 1
    /\ events' = Append(events, "SAMPLE_AND_LEARN")
    /\ pc' = IF outcome' = "ok" THEN "sync" ELSE "crashed"
    /\ UNCHANGED <<variant, epsilon, select_draw, buffer_vars, recorded, noise_vars, ep, prev_state,
                   state, action, reward, done, truncated, episodic_reward,
                   ep_reward_list, ep_steps, ep_rewards, env_last, env_steps, env_done, actor_syncs,
                   critic_syncs, dqn_all_vars>>

\* update_target(target_actor, actor_model, tau)
\* update_target(target_critic, critic_model, tau)
DdpgSync ==
    /\ variant = "ddpg" /\ pc = "sync"
    /\ target_actor' = update_target(target_actor, actor_model)
    /\ actor_syncs' = actor_syncs + 1
    /\ target_critic' = update_target(target_critic, critic_model)
    /\ critic_syncs' = critic_syncs + 1
    /\ events' = Append(events, "SYNC_TARGET")
    /\ pc' = "check"
    /\ UNCHANGED <<variant, epsilon, select_draw, outcome, buffer_vars, sample_vars, recorded,
                   ddpg_live_vars, noise_vars, ep, prev_state, state, action,
                   reward, done, truncated, episodic_reward, ep_reward_list,
                   ep_steps, ep_rewards, env_last, env_steps, env_done, learn_calls, dqn_all_vars>>

episode_over_done_only(d, tr) == d

\* if done or truncated:
episode_over(d, tr) == d \/ tr

\* if done or truncated: break ... ep_reward_list.append(episodic_reward)
\* else prev_state = state
DdpgCheck ==
    /\ variant = "ddpg" /\ pc = "check"
    /\ IF episode_over(done, truncated)
       THEN /\ ep_reward_list' = Append(ep_reward_list, episodic_reward)
            /\ ep' = ep + 1
            /\ pc' = "ep_start"
            /\ UNCHANGED prev_state
       ELSE /\ prev_state' = state
            /\ pc' = "select"
            /\ UNCHANGED <<ep, ep_reward_list>>
    /\ UNCHANGED <<variant, epsilon, select_draw, outcome, buffer_vars, sample_vars, recorded,
                   ddpg_live_vars, ddpg_target_vars, noise_vars, state, action,
                   reward, done, truncated, episodic_reward, hist_vars,
                   dqn_all_vars>>

(***************************************************************************)
(* Training loop of Untitled.ipynb (DQN)                                   *)
(***************************************************************************)
\* for i in range(num_episodes): Return = 0; state = preprocess_state(env.reset())
DqnReset ==
    /\ variant = "dqn" /\ pc = "ep_start"
    /\ IF in_range(ep, num_episodes)
       THEN /\ Return' = 0
            /\ state' \in Observations
            /\ t' = 0
            /\ ep_steps' = 0
            /\ ep_rewards' = << >>
            /\ env_last' = <<None, None, None, <<state'>> >>
            /\ env_done' = FALSE
            /\ events' = << >>
            /\ pc' = "t_loop"
       ELSE /\ pc' = "finished"
            /\ UNCHANGED <<Return, state, t, ep_steps, ep_rewards, env_last, env_done, events>>
    /\ UNCHANGED <<variant, epsilon, select_draw, outcome, dqn_store_vars, dqn_sample_vars, recorded,
                   dqn_param_vars, ep, action, reward, done, time_step,
                   episode_rewards, env_steps, hard_syncs, synced_from,
                   ddpg_all_vars>>

\* for t in range(num_timesteps): time_step += 1;
\* if time_step % dqn.update_rate == 0: dqn.update_target_network()
\* When the range is exhausted the next episode begins.
DqnTick ==
    /\ variant = "dqn" /\ pc = "t_loop"
    /\ t < num_timesteps => time_step < MaxSteps
    /\ IF t < num_timesteps
       THEN /\ time_step' = time_step + 1
            /\ IF sync_due(time_step')
               THEN /\ update_target_network
                    /\ hard_syncs' = hard_syncs + 1
                    /\ synced_from' = main_network
                    /\ events' = <<"SYNC_TARGET">>
               ELSE /\ UNCHANGED <<dqn_param_vars, hard_syncs, synced_from>>
                    /\ events' = << >>
            /\ pc' = "select"
            /\ UNCHANGED ep
       ELSE /\ ep' = ep + 1
            /\ pc' = "ep_start"
            /\ UNCHANGED <<time_step, dqn_param_vars, hard_syncs, synced_from,
                           events>>
    /\ UNCHANGED <<variant, epsilon, select_draw, outcome, dqn_store_vars, dqn_sample_vars, recorded,
                   state, action, reward, done, t, Return, episode_rewards,
                   ep_steps, ep_rewards, env_last, env_steps, env_done, ddpg_all_vars>>

\* action = dqn.epsilon_greedy(state)
DqnSelect ==
    /\ variant = "dqn" /\ pc = "select"
    /\ \E u \in Uniforms, rnd \in 0 .. action_size - 1 : epsilon_greedy(state, u, rnd)
    /\ events' = Append(events, "SELECT_ACTION")
    /\ pc' = "step"
    /\ UNCHANGED <<variant, epsilon, select_draw, outcome, dqn_store_vars, dqn_sample_vars, recorded,
                   dqn_param_vars, ep, state, reward, done, time_step, t, Return,
                   episode_rewards, ep_steps, ep_rewards, env_last, env_steps, env_done, hard_syncs,
                   synced_from, ddpg_all_vars>>

\* next_state, reward, done, _ = env.step(action)
\* next_state = preprocess_state(next_state)
\* dqn.store_transistion(state, action, reward, next_state, done)
\* state = next_state; Return += reward
DqnStep ==
    /\ variant = "dqn" /\ pc = "step"
    /\ \E res \in DqnStepResults :
          LET next_state == res[1] IN
          /\ reward' = res[2]
          /\ done' = res[3]
          /\ store_transistion(state, action, reward', next_state, done')
          /\ state' = next_state
          /\ env_last' = <<env_last[4], <<action>>, <<reward'>>, <<next_state>> >>
    /\ Return' = accumulate(Return, reward')
    /\ ep_steps' = ep_steps + 1
    /\ ep_rewards' = Append(ep_rewards, reward')
    /\ env_steps' = env_steps + 1
    /\ env_done' = done'
    /\ events' = events \o <<"STEP_ENV", "STORE">>
    /\ pc' = "check"
    /\ UNCHANGED <<variant, epsilon, select_draw, outcome, dqn_sample_vars, recorded, dqn_param_vars, ep,
                   action, time_step, t, episode_rewards, hard_syncs, synced_from,
                   ddpg_all_vars>>

train_gate_off(len, bs) == TRUE

\* if len(dqn.replay_buffer) > batch_size:
train_gate(len, bs) == len > bs

\* if done: print(...); break   (the append after the break is never run)
\* if len(dqn.replay_buffer) > batch_size: dqn.train(batch_size)
DqnCheck ==
    /\ variant = "dqn" /\ pc = "check"
    /\ IF done
       THEN /\ ep' = ep + 1
            /\ pc' = "ep_start"
            /\ UNCHANGED t
       ELSE IF train_gate(Len(replay_buffer), dqn_batch_size)
            THEN /\ pc' = "train"
                 /\ UNCHANGED <<ep, t>>
            ELSE /\ t' = t + 1
                 /\ pc' = "t_loop"
                 /\ UNCHANGED ep
    /\ UNCHANGED <<variant, epsilon, select_draw, outcome, dqn_store_vars, dqn_sample_vars, recorded,
                   dqn_param_vars, state, action, reward, done, time_step, Return,
                   episode_rewards, hist_vars, ddpg_all_vars>>

\* dqn.train(batch_size); an exception ends the run
DqnTrain ==
    /\ variant = "dqn" /\ pc = "train"
    /\ train(dqn_batch_size)
    /\ events' = Append(events, "SAMPLE_AND_LEARN")
    /\ IF outcome' = "ok"
       THEN /\ t' = t + 1
            /\ pc' = "t_loop"
       ELSE /\ pc' = "crashed"
            /\ UNCHANGED t
    /\ UNCHANGED <<variant, epsilon, select_draw, dqn_store_vars, recorded, ep, state, action, reward,
                   done, time_step, Return, episode_rewards, ep_steps, ep_rewards, env_last, env_steps,
                   env_done, hard_syncs, synced_from, ddpg_all_vars>>

(***************************************************************************)
(* Spec: one of the two notebooks runs its training loop                   *)
(***************************************************************************)
Init ==
    /\ variant \in {"ddpg", "dqn"}
    /\ IF variant = "ddpg" THEN BufferInit(LoopCapacity, LoopBatch) ELSE BufferInit(1, 1)
    /\ NetworksInit
    /\ NoiseInit
    /\ SampleInit
    /\ SelectorInit
    /\ LoopIdle
    /\ HistInit

Begin ==
    /\ pc = "idle"
    /\ pc' = "ep_start"
    /\ UNCHANGED <<variant, epsilon, select_draw, outcome, buffer_vars, sample_vars, dqn_store_vars,
                   dqn_sample_vars, recorded, ddpg_live_vars, ddpg_target_vars,
                   dqn_param_vars, noise_vars, ep, prev_state, state, action,
                   reward, done, truncated, episodic_reward, ep_reward_list,
                   time_step, t, Return, episode_rewards, hist_vars>>

Next ==
    \/ Begin
    \/ DdpgReset \/ DdpgSelect \/ DdpgStep \/ DdpgStore \/ DdpgLearn
    \/ DdpgSync \/ DdpgCheck
    \/ DqnReset \/ DqnTick \/ DqnSelect \/ DqnStep \/ DqnCheck \/ DqnTrain

Spec == Init /\ [][Next]_vars

(***************************************************************************)
(* SpecSelect: DQN.epsilon_greedy called on an agent with any weights, for *)
(* any observation                                                         *)
(***************************************************************************)
MaxObs == 3             \* observations 0 .. MaxObs handed to epsilon_greedy

InitSelect ==
    /\ variant = "dqn"
    /\ BufferInit(1, 1)
    /\ actor_model = <<0, 0>>
    /\ critic_model = <<Unit, -Unit>>
    /\ target_actor = actor_model
    /\ target_critic = critic_model
    /\ main_network \in ParamValues
    /\ target_network \in ParamValues
    /\ NoiseInit
    /\ outcome = "none"
    /\ batch_indices = << >>
    /\ batch = [state_batch |-> << >>, action_batch |-> << >>,
                reward_batch |-> << >>, next_state_batch |-> << >>]
    /\ y = << >>
    /\ replay_buffer = <<DQNTransition(0)>>
    /\ minibatch = << >>
    /\ minibatch_pos = << >>
    /\ fit_log = << >>
    /\ recorded = << >>
    /\ SelectorInit
    /\ pc = "idle" /\ ep = 0 /\ prev_state = 0
    /\ state \in 0 .. MaxObs
    /\ action = 0 /\ reward = 0 /\ done = FALSE /\ truncated = FALSE
    /\ episodic_reward = 0 /\ ep_reward_list = << >>
    /\ time_step = 0 /\ t = 0 /\ Return = 0 /\ episode_rewards = << >>
    /\ HistInit

\* action = dqn.epsilon_greedy(state)
CallEpsilonGreedy ==
    /\ \E u \in Uniforms, rnd \in 0 .. action_size - 1 :
          /\ epsilon_greedy(state, u, rnd)
          /\ select_draw' = <<u, rnd>>
    /\ UNCHANGED <<variant, epsilon, outcome, buffer_vars, sample_vars,
                   dqn_store_vars, dqn_sample_vars, recorded, ddpg_live_vars,
                   ddpg_target_vars, dqn_param_vars, noise_vars, pc, ep,
                   prev_state, state, reward, done, truncated, episodic_reward,
                   ep_reward_list, time_step, t, Return, episode_rewards,
                   hist_vars>>

NextSelect == CallEpsilonGreedy

SpecSelect == InitSelect /\ [][NextSelect]_vars

(***************************************************************************)
(* Properties of the transition stores (SpecStore)                         *)
(***************************************************************************)
\* slots of the ring that some record() call has written
ValidSlots == { j % buffer_capacity : j \in 0 .. Len(recorded) - 1 }

\* the largest insertion index j < k with j mod C = s
LatestInsertion(s) ==
    CHOOSE j \in 0 .. Len(recorded) - 1 :
        /\ j % buffer_capacity = s
        /\ \A j2 \in 0 .. Len(recorded) - 1 : j2 % buffer_capacity = s => j2 <= j

\* the four field arrays at slot s, read as one transition
SlotTuple(s) == <<state_buffer[s], action_buffer[s], reward_buffer[s], next_state_buffer[s]>>

\* C1: after k record() calls on a Buffer of any capacity C >= 1,
\* buffer_counter = k, exactly min(k, C) slots are valid, and every valid slot
\* s holds, in all four arrays, the transition of the largest insertion index
\* j < k with j mod C = s.
C1_RingInvariant ==
    variant = "ddpg" =>
        /\ buffer_counter = Len(recorded)
        /\ Cardinality(ValidSlots) = Min(Len(recorded), buffer_capacity)
        /\ ValidSlots = 0 .. Min(Len(recorded), buffer_capacity) - 1
        /\ \A s \in ValidSlots : SlotTuple(s) = recorded[LatestInsertion(s) + 1]

\* the scenario of the claim: capacity 4, six inserts, slot 1 holds t5, which
\* differs from the overwritten t1
C1_Witness ==
    /\ variant = "ddpg"
    /\ buffer_capacity = 4
    /\ buffer_counter = 6
    /\ SlotTuple(1) = Transition(5)
    /\ SlotTuple(0) = Transition(4)
    /\ SlotTuple(2) = Transition(2)
    /\ SlotTuple(3) = Transition(3)

\* C2: every index drawn by Buffer.learn lies in [0, min(n, C)) and so never
\* refers to a slot that record() has not written.
C2_SamplingBounds ==
    variant = "ddpg" =>
        \A k \in DOMAIN batch_indices :
            /\ 0 <= batch_indices[k]
            /\ batch_indices[k] < Min(buffer_counter, buffer_capacity)
            /\ batch_indices[k] \in ValidSlots

\* a batch was drawn while the ring was only partly filled
C2_Witness ==
    /\ variant = "ddpg"
    /\ outcome = "ok"
    /\ Len(batch_indices) = batch_size
    /\ buffer_counter = 1
    /\ buffer_capacity = 3

\* C3: learn / train on a store that holds no transition ends in an error
\* and changes neither the store, the counter, the sample nor any live or
\* target parameter.
C3_InsufficientData ==
    [][ /\ (CallLearn /\ buffer_counter = 0) =>
              /\ outcome' = "ValueError"
              /\ UNCHANGED <<buffer_vars, recorded, sample_vars,
                             ddpg_live_vars, ddpg_target_vars>>
        /\ (CallTrain /\ replay_buffer = << >>) =>
              /\ outcome' = "ValueError"
              /\ UNCHANGED <<replay_buffer, recorded, dqn_sample_vars,
                             dqn_param_vars>> ]_vars

\* a sampling call has failed on an empty store
C3_Witness ==
    /\ outcome = "ValueError"
    /\ recorded = << >>
    /\ batch_indices = << >>
    /\ minibatch = << >>

\* C4 as stated: in both variants sampling from a store with at least one
\* transition succeeds for every batch size >= 1 and returns exactly
\* batch_size entries.
C4_Original ==
    [][ /\ (CallLearn /\ buffer_counter >= 1) =>
              /\ outcome' = "ok"
              /\ Len(batch_indices') = batch_size
        /\ \A bs \in 1 .. MaxBatch :
              (CallTrainWith(bs) /\ Len(replay_buffer) >= 1) =>
                  /\ outcome' = "ok"
                  /\ Len(minibatch') = bs ]_vars

\* C4 amended: Buffer.learn samples with replacement (a batch of exactly
\* batch_size entries whenever one transition is stored); DQN.train samples
\* without replacement: batch_size distinct deque positions when
\* batch_size <= len(replay_buffer), and a ValueError that changes nothing
\* when batch_size > len(replay_buffer).
C4_Amended ==
    [][ /\ (CallLearn /\ buffer_counter >= 1) =>
              /\ outcome' = "ok"
              /\ Len(batch_indices') = batch_size
              /\ Len(batch'.state_batch) = batch_size
              /\ Len(batch'.action_batch) = batch_size
              /\ Len(batch'.reward_batch) = batch_size
              /\ Len(batch'.next_state_batch) = batch_size
        /\ \A bs \in 1 .. MaxBatch :
              CallTrainWith(bs) =>
                  IF bs <= Len(replay_buffer)
                  THEN /\ outcome' = "ok"
                       /\ Len(minibatch') = bs
                       /\ \A i, j \in 1 .. bs :
                             i # j => minibatch_pos'[i] # minibatch_pos'[j]
                       /\ \A i \in 1 .. bs :
                             minibatch'[i] = replay_buffer[minibatch_pos'[i]]
                  ELSE /\ outcome' = "ValueError"
                       /\ UNCHANGED <<replay_buffer, dqn_sample_vars, dqn_param_vars>> ]_vars

\* one stored transition, batch size two: the batch holds it twice
C4_Witness ==
    /\ variant = "ddpg"
    /\ outcome = "ok"
    /\ buffer_counter = 1
    /\ batch_size = 2
    /\ batch_indices = <<0, 0>>
    /\ batch.state_batch = <<state_buffer[0], state_buffer[0]>>

(***************************************************************************)
(* Properties of the training loops (Spec)                                 *)
(***************************************************************************)
\* C5: when the first action of an episode is about to be selected, x_prev
\* equals the configured initial value (zero when none is configured).
C5_NoiseResetPerEpisode ==
    (variant = "ddpg" /\ pc = "select" /\ ep_steps = 0) =>
        x_prev = (IF x_initial # None THEN x_initial[1] ELSE 0)

\* C6: the action returned by policy() and passed to env.step lies in
\* [lower_bound, upper_bound].
C6_ActionClipping ==
    variant = "ddpg" => (lower_bound <= action /\ action <= upper_bound)

\* the actor output plus a positive noise exceeded upper_bound and the action
\* about to be passed to env.step is upper_bound
C6_Witness ==
    /\ variant = "ddpg"
    /\ pc = "step"
    /\ x_prev > 0
    /\ action = upper_bound

EventOrder == <<"SELECT_ACTION", "STEP_ENV", "STORE", "SAMPLE_AND_LEARN", "SYNC_TARGET">>

DqnEventOrder == <<"SYNC_TARGET", "SELECT_ACTION", "STEP_ENV", "STORE", "SAMPLE_AND_LEARN">>

Rank(order, e) == CHOOSE i \in 1 .. Len(order) : order[i] = e

\* the events of the current iteration occur in the given order
InOrder(order) ==
    \A i, j \in 1 .. Len(events) :
        i < j => Rank(order, events[i]) < Rank(order, events[j])

\* C7 as stated: in both variants the events of an iteration occur in the
\* order SELECT_ACTION, STEP_ENV, STORE, SAMPLE_AND_LEARN, SYNC_TARGET.
C7_Original == InOrder(EventOrder)

\* C7 amended: the continuous loop performs, in every iteration,
\* SELECT_ACTION, STEP_ENV, STORE, SAMPLE_AND_LEARN, SYNC_TARGET in this
\* order; the discrete loop performs SYNC_TARGET (when time_step is a
\* multiple of update_rate) first, then SELECT_ACTION, STEP_ENV, STORE, and
\* SAMPLE_AND_LEARN last (when the step is not done and the store holds more
\* than batch_size transitions).
C7_Amended ==
    /\ variant = "ddpg" =>
          /\ InOrder(EventOrder)
          /\ pc = "check" => events = EventOrder
    /\ variant = "dqn" =>
          /\ InOrder(DqnEventOrder)
          /\ pc = "check" =>
                events \in { <<"SELECT_ACTION", "STEP_ENV", "STORE">>,
                             <<"SYNC_TARGET", "SELECT_ACTION", "STEP_ENV", "STORE">> }
          /\ (pc \in {"select", "step", "check", "train"}) =>
                ((events # << >> /\ events[1] = "SYNC_TARGET")
                    <=> time_step % update_rate = 0)

\* an iteration of the discrete loop that synchronised first and learned last
C7_Witness ==
    /\ variant = "dqn"
    /\ events = DqnEventOrder

\* C8: DQN.train is invoked only when len(replay_buffer) > batch_size, its
\* sampling never fails, and no learning step has happened while the store
\* held at most batch_size transitions.
C8_LearnGating ==
    variant = "dqn" =>
        /\ pc = "train" => Len(replay_buffer) > dqn_batch_size
        /\ outcome # "ValueError"
        /\ pc # "crashed"
        /\ minibatch # << >> => Len(replay_buffer) > dqn_batch_size

\* a learning step has been taken in the discrete loop
C8_Witness ==
    /\ variant = "dqn"
    /\ outcome = "ok"
    /\ Len(minibatch) = dqn_batch_size
    /\ pc = "t_loop"

\* C9: every environment step of the continuous loop performs one record,
\* then one learn, then one soft update of each target, so that at the end
\* of every step the numbers of learn calls and of soft updates per pair
\* equal buffer_counter; learn is never called on an empty store.
C9_TrainEveryStep ==
    variant = "ddpg" =>
        /\ outcome # "ValueError"
        /\ pc # "crashed"
        /\ pc = "learn" => buffer_counter >= 1
        /\ actor_syncs = critic_syncs
        /\ pc = "store" =>
              /\ env_steps = buffer_counter + 1
              /\ learn_calls = buffer_counter
              /\ actor_syncs = buffer_counter
        /\ pc = "learn" =>
              /\ env_steps = buffer_counter
              /\ learn_calls = buffer_counter - 1
              /\ actor_syncs = buffer_counter - 1
        /\ pc = "sync" =>
              /\ env_steps = buffer_counter
              /\ learn_calls = buffer_counter
              /\ actor_syncs = buffer_counter - 1
        /\ pc \in {"check", "ep_start", "select", "finished"} =>
              /\ env_steps = buffer_counter
              /\ learn_calls = buffer_counter
              /\ actor_syncs = buffer_counter

\* the first step of training is the terminal step of its episode and has
\* recorded, learned and synchronised once
C9_Witness ==
    /\ variant = "ddpg"
    /\ pc = "check"
    /\ done
    /\ env_steps = 1
    /\ buffer_counter = 1
    /\ learn_calls = 1
    /\ actor_syncs = 1
    /\ critic_syncs = 1

\* C10 as stated: in both variants no action is selected after the
\* environment reported completion, and an episode ends only when the
\* environment has reported completion.
C10_Original ==
    /\ pc \in {"t_loop", "select", "step", "train"} => ~env_done
    /\ (pc = "ep_start" /\ ep > 0) => env_done

\* C10 amended: in the continuous loop an episode ends exactly at the first
\* step in which the environment reports terminated or truncated; in the
\* discrete loop an episode ends at the first step in which the environment
\* reports done, or after num_timesteps steps when it has not reported done
\* by then. In both loops nothing is selected, stepped, stored or learned in
\* an episode after the environment reported completion.
C10_Amended ==
    /\ pc \in {"t_loop", "select", "step", "train"} => ~env_done
    /\ (variant = "ddpg" /\ pc = "ep_start" /\ ep > 0) => env_done
    /\ (variant = "dqn" /\ pc = "ep_start" /\ ep > 0) =>
          (env_done \/ (t = num_timesteps /\ ep_steps = num_timesteps))
    /\ (variant = "dqn" /\ pc = "t_loop" /\ t = num_timesteps) =>
          ep_steps = num_timesteps

\* an episode of the discrete loop ended after num_timesteps steps although
\* the environment never reported done
C10_Witness ==
    /\ variant = "dqn"
    /\ pc = "ep_start"
    /\ ep > 0
    /\ ~env_done
    /\ ep_steps = num_timesteps

(***************************************************************************)
(* Termination of the training loops (SpecLive)                            *)
(***************************************************************************)
\* The notebooks are sequential programs: a loop that can take its next
\* step takes it.
SpecLive == Init /\ [][Next]_vars /\ WF_vars(Next)

\* in every episode the environment eventually reports completion
EnvCompletes == [](pc \in {"t_loop", "select"} => <>env_done)

\* the number of episodes the running notebook is configured for
ConfiguredEpisodes == IF variant = "ddpg" THEN total_episodes ELSE num_episodes

\* the loop has stopped after exactly the configured number of episodes
Stopped ==
    /\ pc = "finished"
    /\ ep = ConfiguredEpisodes
    /\ variant = "ddpg" => Len(ep_reward_list) = total_episodes

\* C11: when the environment eventually reports completion in every episode,
\* the training loop of each variant runs exactly the configured number of
\* episodes, one after the other, and then stops for good.
C11_TrainingTerminates == EnvCompletes => <>[]Stopped

\* the continuous loop has stopped after total_episodes completed episodes
C11_Witness ==
    /\ variant = "ddpg"
    /\ pc = "finished"
    /\ ep = total_episodes
    /\ Len(ep_reward_list) = total_episodes
    /\ env_steps >= total_episodes

(***************************************************************************)
(* Properties of the target synchronisation (Spec)                         *)
(***************************************************************************)
\* a step of the discrete loop that calls update_target_network
HardSyncStep == variant = "dqn" /\ pc = "t_loop" /\ hard_syncs' = hard_syncs + 1

\* C12: immediately after DQN.update_target_network() every parameter of the
\* target network equals the main network's parameter at that instant,
\* whatever the target held before.
C12_HardUpdateExact ==
    [][ HardSyncStep =>
            /\ target_network' = main_network
            /\ target_network' = main_network' ]_vars

\* a target copy has just overwritten a target that differed from the main
\* network: the target no longer holds its initial weights
C12_Witness ==
    /\ variant = "dqn"
    /\ pc = "select"
    /\ events = <<"SYNC_TARGET">>
    /\ hard_syncs = 2
    /\ target_network = main_network
    /\ target_network # <<Unit, -Unit>>

\* the environment steps taken so far, counting the one being prepared
StepCount == IF pc \in {"select", "step"} THEN env_steps + 1 ELSE env_steps

\* C13: in the discrete loop the target network is overwritten at exactly
\* those environment steps whose count, taken over the whole run and never
\* reset at an episode boundary, is a positive multiple of update_rate, and at
\* no other step after initialisation.
C13_HardUpdateSchedule ==
    /\ [](variant = "dqn" =>
            /\ time_step = StepCount
            /\ hard_syncs = time_step \div update_rate)
    /\ [][ variant = "dqn" =>
            /\ HardSyncStep <=>
                  /\ pc = "t_loop" /\ pc' = "select"
                  /\ time_step' = time_step + 1
                  /\ time_step' > 0
                  /\ time_step' % update_rate = 0
            /\ target_network' # target_network => HardSyncStep ]_vars

\* the second target copy happens at step 2 * update_rate, in the second
\* episode
C13_Witness ==
    /\ variant = "dqn"
    /\ pc = "select"
    /\ ep = 1
    /\ time_step = 2 * update_rate
    /\ hard_syncs = 2
    /\ events = <<"SYNC_TARGET">>

\* a step of the continuous loop that calls update_target on both pairs
SoftSyncStep == variant = "ddpg" /\ pc = "sync" /\ pc' = "check"

\* C14: in both variants the target parameters change only in
\* synchronisation steps; record, action selection and the learning step
\* leave every target parameter unchanged, so that between two
\* synchronisations of the discrete variant the target equals the main
\* network's parameters as they were at the last synchronisation.
C14_TargetSingleWriter ==
    /\ [][ /\ ddpg_target_vars' # ddpg_target_vars => SoftSyncStep
           /\ target_network' # target_network => HardSyncStep
           /\ pc \in {"select", "step", "store", "learn", "train", "check"} =>
                 UNCHANGED <<ddpg_target_vars, target_network>> ]_vars
    /\ [](variant = "dqn" => target_network = synced_from)

\* after a target copy a learning step has moved the main network away from
\* the target, which still holds the copied weights
C14_Witness ==
    /\ variant = "dqn"
    /\ pc = "t_loop"
    /\ hard_syncs = 1
    /\ outcome = "ok"
    /\ minibatch # << >>
    /\ main_network # target_network
    /\ target_network = synced_from

\* C15: update_target and DQN.update_target_network never change a live
\* (original / main) parameter, and the live and target parameters stay two
\* separate buffers: a step that changes live parameters leaves the target
\* as it was, until the next synchronisation.
C15_SyncOneDirectional ==
    [][ /\ SoftSyncStep => UNCHANGED ddpg_live_vars
        /\ HardSyncStep => UNCHANGED main_network
        /\ ddpg_live_vars' # ddpg_live_vars => UNCHANGED ddpg_target_vars
        /\ main_network' # main_network => UNCHANGED target_network ]_vars

\* the first soft update has moved both targets towards live networks that
\* it left as the learning step had set them
C15_Witness ==
    /\ variant = "ddpg"
    /\ pc = "check"
    /\ actor_syncs = 1
    /\ actor_model = optimizer_step(<<0, 0>>)
    /\ critic_model = optimizer_step(<<Unit, -Unit>>)
    /\ target_actor = update_target(<<0, 0>>, actor_model)
    /\ target_actor # <<0, 0>>
    /\ target_actor # actor_model
    /\ target_critic # critic_model

(***************************************************************************)
(* Properties of update_target (SpecSoft)                                  *)
(***************************************************************************)
Abs(v) == IF v < 0 THEN -v ELSE v

\* C16 as stated: one call of update_target with fixed live parameters gives
\* element-wise |target - live| <= (1 - tau) * |target_prev - live|, so the
\* distance never grows and a target equal to live stays equal.
C16_Original ==
    [][ \A i \in 1 .. Len(target_actor) :
            Unit * Abs(target_actor'[i] - actor_model[i])
                <= (Unit - tau) * Abs(target_actor[i] - actor_model[i]) ]_vars

\* C16 amended: one call of update_target sets every target parameter to
\* tau * live + (1 - tau) * target_prev up to the rounding of the two
\* products (half a unit of the last place each), so that element-wise
\* |target - live| <= (1 - tau) * |target_prev - live| + one unit; the distance
\* grows by at most that rounding error and a target equal to live stays
\* within one unit of it.
C16_Amended ==
    [][ \A i \in 1 .. Len(target_actor) :
            /\ Abs(Unit * target_actor'[i]
                     - (tau * actor_model[i] + (Unit - tau) * target_actor[i]))
                 <= Unit
            /\ Unit * Abs(target_actor'[i] - actor_model[i])
                 <= (Unit - tau) * Abs(target_actor[i] - actor_model[i]) + Unit
            /\ target_actor[i] = actor_model[i] =>
                 Abs(target_actor'[i] - actor_model[i]) <= 1 ]_vars

\* a target that was equal to the live weights 0.5 and -0.5 has been moved
\* off them by the rounding of one update
C16_Witness ==
    /\ actor_model = <<2 * (Unit \div 4), -(2 * (Unit \div 4))>>
    /\ target_actor = <<2 * (Unit \div 4) + 1, -(2 * (Unit \div 4)) + 1>>
    /\ pc = "idle"

(***************************************************************************)
(* Properties of DQN.train                                                 *)
(***************************************************************************)
\* a step of the discrete loop in which dqn.train(batch_size) returns
TrainStep == variant = "dqn" /\ pc = "train" /\ outcome' = "ok"

\* m is the largest component of q
IsMax(m, q) == (\E a \in DOMAIN q : q[a] = m) /\ (\A a \in DOMAIN q : q[a] <= m)

\* C17: for every sampled transition, when done is true the target for the
\* taken action is exactly the reward, whatever gamma and the target network
\* are; otherwise it is reward + gamma * the largest output of the target
\* network (not the main network) on next_state.
C17_BootstrapTarget ==
    [][ TrainStep =>
            \A k \in 1 .. Len(minibatch') :
                LET tr == minibatch'[k]
                    tq == fit_log'[k].target_Q
                IN  IF tr[5]
                    THEN tq = tr[3] * Unit
                    ELSE \E m \in { predict(target_network, tr[4])[a] :
                                        a \in 0 .. action_size - 1 } :
                            /\ IsMax(m, predict(target_network, tr[4]))
                            /\ tq = tr[3] * Unit + RoundDiv(gamma * m, Unit) ]_vars

\* a terminal transition with reward 2 was sampled while the target network
\* gave non-zero outputs that differ from the main network's: its target is
\* exactly 2.0
C17_Witness ==
    /\ variant = "dqn"
    /\ outcome = "ok"
    /\ Len(minibatch) >= 1
    /\ minibatch[1][5]
    /\ minibatch[1][3] = 2
    /\ fit_log[1].target_Q = 2 * Unit
    /\ target_network # <<0, 0>>
    /\ amax(predict(target_network, minibatch[1][4])) # 0

\* C18: for every sampled transition the vector the main network is fitted
\* against equals the main network's own output on the state in every
\* component except the taken action's, and the taken action's component is
\* the bootstrap target.
C18_FitVectorFrame ==
    [][ \A bs \in 1 .. MaxBatch :
          (CallTrainWith(bs) /\ outcome' = "ok") =>
            \A k \in 1 .. bs :
                LET tr == minibatch'[k]
                    live == predict(fit_each(main_network, k - 1), tr[1])
                    fitted == fit_log'[k].Q_values
                IN  /\ DOMAIN fitted = 0 .. action_size - 1
                    /\ \A a \in 0 .. action_size - 1 :
                          a # tr[2] => fitted[a] = live[a]
                    /\ fitted[tr[2]] = fit_log'[k].target_Q ]_vars

\* two transitions were fitted in one train call; in the first fit vector the
\* untaken action keeps the main network's non-zero prediction, which differs
\* from the bootstrap target
C18_Witness ==
    /\ variant = "dqn"
    /\ outcome = "ok"
    /\ Len(fit_log) = 2
    /\ pc = "idle"
    /\ \E a \in 0 .. action_size - 1 :
          /\ a # minibatch[1][2]
          /\ fit_log[1].Q_values[a] # 0
          /\ fit_log[1].Q_values[a] # fit_log[1].target_Q
          /\ fit_log[1].Q_values[a] = predict(<<Unit, -Unit>>, minibatch[1][1])[a]

(***************************************************************************)
(* Properties of OUActionNoise (SpecNoise)                                 *)
(***************************************************************************)
\* the configured initial value, or zero when none was configured
Configured(x_init) == IF x_init = None THEN 0 ELSE x_init[1]

\* C19: after reset(), whatever samples were drawn before, x_prev equals the
\* configured x_initial, or zero when none was configured; a reset of an
\* object that was just reset changes nothing; no call, sampling included,
\* changes the configured initial value.
C19_ResetState ==
    [][ /\ CallReset =>
              /\ x_prev' = Configured(x_initial)
              /\ x_prev = Configured(x_initial) => x_prev' = x_prev
        /\ CallOtherReset =>
              /\ other_noise'.x_prev = Configured(other_noise.x_initial)
              /\ other_noise.x_prev = Configured(other_noise.x_initial) =>
                    other_noise' = other_noise
        /\ x_initial' = x_initial
        /\ other_noise'.x_initial = other_noise.x_initial ]_vars

\* samples had moved x_prev away from the configured initial value 0.1 and a
\* reset has brought it back
C19_Witness ==
    /\ x_initial = <<Unit \div 10>>
    /\ x_prev = Unit \div 10
    /\ drawn.a.log = << >>
    /\ drawn.a.discarded
    /\ pc = "idle"

\* the draws fed to an object since its reset, and the samples it returned
Draws(log) == [k \in 1 .. Len(log) |-> log[k][1]]
Samples(log) == [k \in 1 .. Len(log) |-> log[k][2]]

\* the x_prev that the k-th sample since the reset started from
PrevOf(log, x_init, k) == IF k = 1 THEN Configured(x_init) ELSE log[k - 1][2]

\* (x_prev, draw, sample) of every sample taken since the resets
SampleTriples ==
    { <<PrevOf(drawn.a.log, x_initial, k), drawn.a.log[k][1], drawn.a.log[k][2]>> :
          k \in 1 .. Len(drawn.a.log) }
    \cup
    { <<PrevOf(drawn.b.log, other_noise.x_initial, k), drawn.b.log[k][1],
        drawn.b.log[k][2]>> : k \in 1 .. Len(drawn.b.log) }

\* C20: two OU objects with equal parameters that were reset and then fed
\* the same draws have returned the same samples and hold the same x_prev,
\* whatever either did before its reset; the sample returned is the x_prev of
\* the next sample, and a sample is determined by x_prev and the draw.
C20_Reproducible ==
    /\ \A n \in 0 .. Min(Len(drawn.a.log), Len(drawn.b.log)) :
          SubSeq(Draws(drawn.a.log), 1, n) = SubSeq(Draws(drawn.b.log), 1, n) =>
              SubSeq(Samples(drawn.a.log), 1, n) = SubSeq(Samples(drawn.b.log), 1, n)
    /\ Draws(drawn.a.log) = Draws(drawn.b.log) => x_prev = other_noise.x_prev
    /\ x_prev = PrevOf(drawn.a.log, x_initial, Len(drawn.a.log) + 1)
    /\ other_noise.x_prev
          = PrevOf(drawn.b.log, other_noise.x_initial, Len(drawn.b.log) + 1)
    /\ \A p, q \in SampleTriples : (p[1] = q[1] /\ p[2] = q[2]) => p[3] = q[3]

\* one object was reset after use, the other never used before; fed the same
\* two draws they returned the same samples and hold the same x_prev
C20_Witness ==
    /\ Len(drawn.a.log) = 2
    /\ drawn.a.log = drawn.b.log
    /\ drawn.a.discarded
    /\ ~drawn.b.discarded
    /\ x_prev = other_noise.x_prev
    /\ x_prev # Configured(x_initial)
    /\ pc = "idle"

(***************************************************************************)
(* Frame and alignment of the ring store (SpecStore)                       *)
(***************************************************************************)
\* C21: a record() call changes only the slot at index n mod C, in all four
\* field arrays, and the counter; every other slot keeps its content; the
\* sampling / learning step changes no slot and not the counter; a slot's
\* content changes only when record() overwrites it.
C21_StoreFrame ==
    [][ /\ CallRecord =>
              /\ buffer_counter' = buffer_counter + 1
              /\ buffer_capacity' = buffer_capacity
              /\ \A s \in 0 .. buffer_capacity - 1 :
                    IF s = buffer_counter % buffer_capacity
                    THEN SlotTuple(s)' = Transition(buffer_counter)
                    ELSE SlotTuple(s)' = SlotTuple(s)
        /\ CallLearn =>
              /\ buffer_counter' = buffer_counter
              /\ \A s \in 0 .. buffer_capacity - 1 : SlotTuple(s)' = SlotTuple(s)
        /\ \A s \in 0 .. buffer_capacity - 1 :
              SlotTuple(s)' # SlotTuple(s) =>
                  /\ CallRecord
                  /\ s = buffer_counter % buffer_capacity ]_vars

\* the fourth insert into a ring of capacity 3 has overwritten slot 0 only,
\* and a learning step has run since
C21_Witness ==
    /\ variant = "ddpg"
    /\ buffer_capacity = 3
    /\ buffer_counter = 4
    /\ SlotTuple(0) = Transition(3)
    /\ SlotTuple(1) = Transition(1)
    /\ SlotTuple(2) = Transition(2)
    /\ outcome = "ok"
    /\ batch_indices # << >>

\* the k-th entries of the four batch arrays, read as one transition
BatchTuple(k) ==
    <<batch.state_batch[k], batch.action_batch[k], batch.reward_batch[k],
      batch.next_state_batch[k]>>

\* the transitions handed to record() so far
RecordedSet == { recorded[j] : j \in 1 .. Len(recorded) }

\* C22: the k-th state, action, reward and next_state of every sampled batch
\* were written by one and the same record() call, and in every reachable
\* state the four field arrays hold, at every valid slot, the fields of a
\* single recorded transition.
C22_BatchAlignment ==
    variant = "ddpg" =>
        /\ \A s \in ValidSlots : SlotTuple(s) \in RecordedSet
        /\ \A k \in 1 .. Len(batch_indices) : BatchTuple(k) \in RecordedSet
        /\ Len(batch.state_batch) = Len(batch_indices)
        /\ Len(batch.action_batch) = Len(batch_indices)
        /\ Len(batch.reward_batch) = Len(batch_indices)
        /\ Len(batch.next_state_batch) = Len(batch_indices)

\* a batch of two different transitions was drawn from a ring that had
\* wrapped around
C22_Witness ==
    /\ variant = "ddpg"
    /\ outcome = "ok"
    /\ buffer_capacity = 2
    /\ buffer_counter = 3
    /\ batch_indices = <<0, 1>>
    /\ BatchTuple(1) = Transition(2)
    /\ BatchTuple(2) = Transition(1)

(***************************************************************************)
(* Ring array and bounded deque side by side (SpecPair)                    *)
(***************************************************************************)
\* the (s, a, r, s2) part of a deque entry
Fields(entry) == <<entry[1], entry[2], entry[3], entry[4]>>

\* the transitions the ring array holds
RingContents == { SlotTuple(s) : s \in 0 .. Min(buffer_counter, buffer_capacity) - 1 }

\* the transitions the deque holds
DequeContents == { Fields(replay_buffer[i]) : i \in 1 .. Len(replay_buffer) }

\* the n most recently inserted transitions
MostRecent(n) == { recorded[j] : j \in Len(recorded) - n + 1 .. Len(recorded) }

\* C23: after every one of k insertions of the same transitions, the
\* deque(maxlen=C) and the ring array of capacity C hold the same set of
\* transitions, the min(k, C) most recently inserted ones; the deque keeps
\* them in insertion order, so the oldest is evicted first once k > C.
C23_StoreEquivalence ==
    LET k == Len(recorded)
        n == Min(k, buffer_capacity)
    IN  /\ buffer_capacity = maxlen
        /\ RingContents = DequeContents
        /\ RingContents = MostRecent(n)
        /\ Cardinality(RingContents) = n
        /\ Len(replay_buffer) = n
        /\ \A i \in 1 .. n : Fields(replay_buffer[i]) = recorded[k - n + i]

\* two insertions beyond the capacity: both stores have evicted the two
\* oldest transitions
C23_Witness ==
    /\ Len(recorded) = maxlen + 2
    /\ Len(replay_buffer) = maxlen
    /\ buffer_counter = maxlen + 2
    /\ recorded[1] \notin RingContents
    /\ recorded[2] \notin DequeContents
    /\ recorded[Len(recorded)] \in RingContents \cap DequeContents

(***************************************************************************)
(* Episode bookkeeping of the two loops (Spec)                             *)
(***************************************************************************)
RECURSIVE SumSeq(_)
SumSeq(q) == IF q = << >> THEN 0 ELSE q[1] + SumSeq(Tail(q))

\* C24: in both loops the episode's cumulative reward is zero after the
\* reset and, once the step's reward has been added, equals the sum of the
\* rewards env.step returned since that reset; when the episode is over
\* the value (appended to ep_reward_list in the ddpg loop) is the sum of
\* exactly that episode's rewards, the last step's reward included.
C24_CumulativeReward ==
    /\ variant = "ddpg" =>
          /\ (pc = "select" /\ ep_steps = 0) =>
                (episodic_reward = 0 /\ ep_rewards = << >>)
          /\ pc \in {"learn", "sync", "check"} =>
                episodic_reward = SumSeq(ep_rewards)
          /\ (pc = "ep_start" /\ ep > 0) =>
                /\ Len(ep_reward_list) = ep
                /\ ep_reward_list[ep] = SumSeq(ep_rewards)
                /\ Len(ep_rewards) = ep_steps
                /\ ep_rewards[ep_steps] = reward
    /\ variant = "dqn" =>
          /\ (pc = "t_loop" /\ ep_steps = 0) => (Return = 0 /\ ep_rewards = << >>)
          /\ pc \in {"check", "train", "t_loop"} => Return = SumSeq(ep_rewards)
          /\ (pc = "ep_start" /\ ep > 0) =>
                /\ Return = SumSeq(ep_rewards)
                /\ Len(ep_rewards) = ep_steps
                /\ ep_steps > 0 => ep_rewards[ep_steps] = reward

\* the second episode is over after two steps; the first episode had a
\* reward of its own, which is not part of the second total
C24_Witness ==
    /\ variant = "ddpg"
    /\ pc = "ep_start"
    /\ ep = 2
    /\ ep_steps = 2
    /\ ep_reward_list[1] > 0
    /\ ep_reward_list[2] = ep_rewards[1] + ep_rewards[2]

\* the environment's last exchange as a transition
EnvTuple(e) == <<e[1][1], e[2][1], e[3][1], e[4][1]>>

\* C26: in both loops the transition stored at a step is (observation the
\* action was selected from, action passed to env.step, reward and
\* observation returned by that env.step); the first step after a reset
\* starts from the observation env.reset returned, and a later step's
\* stored state is the next_state stored by the step before it.
C26_TransitionMatchesStep ==
    [][ /\ DdpgStep =>
              /\ env_last'[1] = <<prev_state>>
              /\ ep_steps = 0 => (env_last[1] = None /\ env_last[4] = <<prev_state>>)
        /\ DdpgStore =>
              \A s \in {buffer_counter % buffer_capacity},
                 b \in {(buffer_counter - 1) % buffer_capacity} :
                  /\ SlotTuple(s)' = EnvTuple(env_last)
                  /\ SlotTuple(s)'[1] = prev_state
                  /\ ep_steps > 1 => SlotTuple(s)'[1] = SlotTuple(b)[4]
        /\ DqnStep =>
              LET e == replay_buffer'[Len(replay_buffer')]
              IN  /\ Fields(e) = EnvTuple(env_last')
                  /\ e[5] = done'
                  /\ env_last'[1] = env_last[4]
                  /\ ep_steps = 0 => env_last[1] = None
                  /\ ep_steps > 0 =>
                        e[1] = replay_buffer[Len(replay_buffer)][4] ]_vars

\* the second step of an episode has been stored: it was taken from
\* observation 1, which the first step returned, and it returned observation 2
C26_Witness ==
    /\ variant = "ddpg"
    /\ pc = "learn"
    /\ ep_steps = 2
    /\ buffer_counter = 2
    /\ SlotTuple(0) = EnvTuple(env_last)
    /\ SlotTuple(0)[1] = 1
    /\ SlotTuple(0)[4] = 2

(***************************************************************************)
(* The critic target of Buffer.update (Spec)                               *)
(***************************************************************************)
\* the bootstrap term for next state ns, from the target networks
Bootstrap(ns) ==
    RoundDiv(ddpg_gamma * critic_output(target_critic, ns,
                                        actor_output(target_actor, ns)), Unit)

\* C25: every learn() of the ddpg loop computes, for every sampled
\* transition k, y[k] = reward + gamma * target_critic(next_state,
\* target_actor(next_state)), whatever the environment reported at the step
\* that recorded it: the store holds four fields per slot and no done flag,
\* and the bootstrap term is added also when done or truncated is set.
C25_NoTerminalMasking ==
    [][ (DdpgLearn /\ outcome' = "ok") =>
            /\ Len(y') = batch_size
            /\ Len(batch'.reward_batch) = batch_size
            /\ DOMAIN batch' = {"state_batch", "action_batch", "reward_batch",
                                "next_state_batch"}
            /\ \A k \in 1 .. batch_size :
                  y'[k] = batch'.reward_batch[k] * Unit
                          + Bootstrap(batch'.next_state_batch[k]) ]_vars

\* learn() has just sampled the transition recorded at a step at which the
\* environment reported terminated; its target carries a bootstrap term
C25_Witness ==
    /\ variant = "ddpg"
    /\ pc = "sync"
    /\ outcome = "ok"
    /\ done
    /\ batch.reward_batch[1] = reward
    /\ batch.next_state_batch[1] = state
    /\ y[1] # reward * Unit
    /\ y[1] = 2 * Unit + RoundDiv(ddpg_gamma * Unit, Unit)

(***************************************************************************)
(* The per-episode return log of the dqn loop (Spec)                       *)
(***************************************************************************)
\* C27: in the dqn loop every episode that ends with done has appended its
\* Return to episode_rewards, so the list holds one entry per completed
\* episode.  (The append stands after the break and is never executed:
\* episode_rewards stays empty.)
C27_ReturnLogged ==
    (variant = "dqn" /\ pc = "ep_start" /\ ep > 0 /\ done) =>
        /\ Len(episode_rewards) >= 1
        /\ episode_rewards[Len(episode_rewards)] = Return

(***************************************************************************)
(* Action selection of the DQN agent (SpecSelect)                          *)
(***************************************************************************)
\* C28: every call of epsilon_greedy returns an index in 0 .. action_size - 1:
\* the random index when the uniform draw is below epsilon, otherwise the
\* index of the largest output of the main network for the given state;
\* the call leaves epsilon, the replay buffer, the main and the target
\* network as they were.
C28_EpsilonGreedy ==
    [][ CallEpsilonGreedy =>
            LET u == select_draw'[1]
                rnd == select_draw'[2]
                q == predict(main_network, state)
            IN  /\ action' \in 0 .. action_size - 1
                /\ u < epsilon => action' = rnd
                /\ ~(u < epsilon) =>
                      \A b \in 0 .. action_size - 1 : q[b] <= q[action']
                /\ epsilon' = epsilon
                /\ replay_buffer' = replay_buffer
                /\ main_network' = main_network
                /\ target_network' = target_network ]_vars

\* the uniform draw equals epsilon, so the choice is greedy: the last index
\* has the largest output although the random index was 0
C28_Witness ==
    /\ select_draw = <<initial_epsilon, 0>>
    /\ main_network = <<-Unit, Unit>>
    /\ state = 1
    /\ action = action_size - 1
    /\ epsilon = initial_epsilon
    /\ replay_buffer = <<DQNTransition(0)>>

====
